---- MODULE Spec2Model ----
(***************************************************************************)
(* The "never miss a beat" checkpoint engines of the examples:             *)
(*   - examples/advanced/common/graphql-never-miss-a-beat.js  (cursor      *)
(*     variant: commits on every message, marks the stream with the        *)
(*     message's cursor and writes it to last_cursor.txt);                 *)
(*   - examples/advanced/never-miss-a-beat.ts  (block-height variant:      *)
(*     commits when a block ahead of lastCommittedBlockNum is seen or on a *)
(*     progress message, marks the stream with { atBlockNum }).            *)
(* The stream itself (mark, automatic restart at the mark, inclusively) is *)
(* not part of the sources at hand; it is modelled from the specification. *)
(* A handler is a run of steps chained by pc: nothing else but a process   *)
(* crash can happen between the steps of one handler.                      *)
(***************************************************************************)
EXTENDS Integers, Sequences, FiniteSets

\* ------------------------------------------------------------------ bounds
\* Number of messages of the source stream.
NumMsgs == 3
\* Socket reconnections per behaviour.
MaxReconnects == 2
\* Process crashes (followed by a new run) per behaviour, cursor variant.
MaxCrashes == 1
\* Failed writes and error messages per behaviour.
MaxFaults == 1

\* Block numbers of the WebSocket stream: 1..MaxBlock.
MaxBlock == 2

\* Matching actions per data message of the GraphQL stream.
ActsPerMsg == {1, 2}
Blocks == 1..MaxBlock

\* ----------------------------------------------------------------- helpers
Range(s) == {s[i] : i \in 1..Len(s)}

RECURSIVE Dedup(_)
\* s with repeated elements removed, first occurrences kept.
Dedup(s) ==
    IF s = <<>> THEN <<>>
    ELSE LET d == Dedup(SubSeq(s, 1, Len(s) - 1))
         IN IF s[Len(s)] \in Range(d) THEN d ELSE Append(d, s[Len(s)])

\* ------------------------------------------------------------------ source
\* The payload (action.json / trace.act) of the j-th matching action of the
\* i-th message: its identity.
ActionId(i, j) == 10 * i + j

\* The cursor the API attaches to the i-th message, as UTF-16 code units.
\* An opaque token; odd positions are plain ASCII ("c1"), even ones hold a
\* two-byte character.
CursorOf(i) == IF i % 2 = 1 THEN <<99, 48 + i>> ELSE <<233, 48 + i>>

\* Messages of the GraphQL subscription: a transaction with its matching
\* actions, or a live marker (no trace).
GqlMessage(i, n) ==
    [kind |-> IF n = 0 THEN "progress" ELSE "data",
     blk  |-> i,
     acts |-> [j \in 1..n |-> ActionId(i, j)]]

\* Messages of the WebSocket stream: one action trace, or a progress message.
WsMessage(i, k, b) ==
    [kind |-> k,
     blk  |-> b,
     acts |-> IF k = "action" THEN <<ActionId(i, 1)>> ELSE <<>>]

GqlSources ==
    {[i \in 1..NumMsgs |-> GqlMessage(i, f[i])] :
        f \in [1..NumMsgs -> ActsPerMsg \cup {0}]}

\* The WebSocket stream delivers blocks in non-decreasing order.
WsSources ==
    {[i \in 1..NumMsgs |-> WsMessage(i, k[i], b[i])] :
        k \in [1..NumMsgs -> {"action", "progress"}],
        b \in {g \in [1..NumMsgs -> Blocks] :
                 \A i \in 1..(NumMsgs - 1) : g[i] <= g[i + 1]}}

\* ------------------------------------------------------- cursor file (fs)
\* writeFileSync(path, cursor): the string, a sequence of UTF-16 code units,
\* is written UTF-8 encoded.
\* One code point as one to four bytes.
Utf8CodePoint(c) ==
    IF c < 128 THEN <<c>>
    ELSE IF c < 2048 THEN <<192 + (c \div 64), 128 + (c % 64)>>
    ELSE IF c < 65536
         THEN <<224 + (c \div 4096), 128 + ((c \div 64) % 64), 128 + (c % 64)>>
    ELSE <<240 + (c \div 262144), 128 + ((c \div 4096) % 64),
           128 + ((c \div 64) % 64), 128 + (c % 64)>>

HighSurrogate(u) == u >= 55296 /\ u <= 56319
LowSurrogate(u) == u >= 56320 /\ u <= 57343

\* A code unit standing alone: a lone surrogate is written as U+FFFD.
Utf8Unit(u) ==
    IF HighSurrogate(u) \/ LowSurrogate(u) THEN <<239, 191, 189>>
    ELSE Utf8CodePoint(u)

RECURSIVE Utf8Encode(_)
\* A surrogate pair is one code point of four bytes.
Utf8Encode(s) ==
    IF s = <<>> THEN <<>>
    ELSE IF Len(s) >= 2 /\ HighSurrogate(s[1]) /\ LowSurrogate(s[2])
         THEN Utf8CodePoint(65536 + (s[1] - 55296) * 1024 + (s[2] - 56320))
                 \o Utf8Encode(SubSeq(s, 3, Len(s)))
    ELSE Utf8Unit(Head(s)) \o Utf8Encode(Tail(s))

\* readFileSync(path).toString(): the buffer decoded as UTF-8. A byte that
\* cannot start or continue a well-formed sequence ends the sequence read so
\* far, which decodes to one U+FFFD; a code point above U+FFFF becomes a
\* surrogate pair.
\* The i-th byte of b is there and lies in lo..hi.
ByteIn(b, i, lo, hi) == Len(b) >= i /\ b[i] >= lo /\ b[i] <= hi

\* Bounds of the byte that may follow lead byte h (no overlong form, no
\* surrogate, nothing above U+10FFFF).
SecondLow(h) == IF h = 224 THEN 160 ELSE IF h = 240 THEN 144 ELSE 128
SecondHigh(h) == IF h = 237 THEN 159 ELSE IF h = 244 THEN 143 ELSE 191

Utf16(c) ==
    IF c < 65536 THEN <<c>>
    ELSE <<55296 + ((c - 65536) \div 1024), 56320 + ((c - 65536) % 1024)>>

RECURSIVE Utf8Decode(_)
Utf8Decode(b) ==
    IF b = <<>> THEN <<>>
    ELSE LET h == Head(b)
             from(i) == Utf8Decode(SubSeq(b, i, Len(b)))
         IN
         IF h < 128 THEN <<h>> \o from(2)
         ELSE IF h >= 194 /\ h <= 223
              THEN IF ByteIn(b, 2, 128, 191)
                   THEN <<(h - 192) * 64 + (b[2] - 128)>> \o from(3)
                   ELSE <<65533>> \o from(2)
         ELSE IF h >= 224 /\ h <= 239
              THEN IF ~ByteIn(b, 2, SecondLow(h), SecondHigh(h))
                   THEN <<65533>> \o from(2)
                   ELSE IF ~ByteIn(b, 3, 128, 191) THEN <<65533>> \o from(3)
                   ELSE <<(h - 224) * 4096 + (b[2] - 128) * 64 + (b[3] - 128)>>
                           \o from(4)
         ELSE IF h >= 240 /\ h <= 244
              THEN IF ~ByteIn(b, 2, SecondLow(h), SecondHigh(h))
                   THEN <<65533>> \o from(2)
                   ELSE IF ~ByteIn(b, 3, 128, 191) THEN <<65533>> \o from(3)
                   ELSE IF ~ByteIn(b, 4, 128, 191) THEN <<65533>> \o from(4)
                   ELSE Utf16((h - 240) * 262144 + (b[2] - 128) * 4096
                                + (b[3] - 128) * 64 + (b[4] - 128)) \o from(5)
         ELSE <<65533>> \o from(2)

NoFile == [exists |-> FALSE, bytes |-> <<>>]

\* writeFileSync opens the file for writing, which creates it or empties it,
\* and then writes the bytes in a loop of write calls, each storing some of
\* the bytes that are left.
openTruncate(f) == [exists |-> TRUE, bytes |-> <<>>]

\* One write call that stores k more bytes of the cursor.
writePart(f, cursor, k) ==
    [f EXCEPT !.bytes = SubSeq(Utf8Encode(cursor), 1, Len(f.bytes) + k)]

\* The file once writeFileSync(path, cursor) has returned.
writeFileSync(cursor) == [exists |-> TRUE, bytes |-> Utf8Encode(cursor)]

\* Engine.run: the last persisted cursor, "" when the file does not exist.
LoadCursor(f) == IF f.exists THEN Utf8Decode(f.bytes) ELSE <<>>

\* ------------------------------------------------------------------ engine
\* constructor: pendingActions = [], committedActions = [],
\* lastCommittedBlockNum = 0 (block-height variant only).
NewEngine ==
    [pendingActions |-> <<>>, committedActions |-> <<>>, lastCommittedBlockNum |-> 0]

\* --- graphql-never-miss-a-beat.js
\* Mutation of gqlPushMatching: only the first matching action is pushed.
gqlPushMatchingFirst(e, m) ==
    [e EXCEPT !.pendingActions = Append(@, m.acts[1])]

\* onResult, the forEach over trace.matchingActions: each is pushed to pending.
gqlPushMatching(e, m) == [e EXCEPT !.pendingActions = @ \o m.acts]

\* Mutation of gqlPushOne: only the first pending action is pushed.
gqlPushOneFirstOnly(e, i) ==
    IF i = 1 THEN [e EXCEPT !.committedActions = Append(@, e.pendingActions[i])]
    ELSE e

\* commit, the body of the forEach for the i-th pending action: it is
\* pushed to committedActions.
gqlPushOne(e, i) ==
    [e EXCEPT !.committedActions = Append(@, e.pendingActions[i])]

RECURSIVE gqlForEach(_, _)
\* The forEach over pendingActions from its i-th element on.
gqlForEach(e, i) ==
    IF i > Len(e.pendingActions) THEN e ELSE gqlForEach(gqlPushOne(e, i), i + 1)

\* commit, after the forEach: the pending list is emptied (inside the test
\* for anything pending).
gqlCommitClear(e) ==
    IF Len(e.pendingActions) > 0 THEN [e EXCEPT !.pendingActions = <<>>] ELSE e

\* commit, first part as a whole: pending actions are pushed to
\* committedActions and the pending list is emptied, when there is anything
\* pending.
gqlCommitSink(e) ==
    IF Len(e.pendingActions) > 0 THEN gqlCommitClear(gqlForEach(e, 1)) ELSE e

\* onResult as a whole, on the engine's fields (mark and writeFileSync act on
\* the stream and the file).
gqlOnResult(e, m) ==
    IF m.kind = "progress" THEN gqlCommitSink(e)
    ELSE gqlCommitSink(gqlPushMatching(e, m))

\* --- never-miss-a-beat.ts
\* Mutation of wsAhead: a message of the last committed block counts as ahead.
wsAheadOrEqual(e, m) == m.blk >= e.lastCommittedBlockNum

\* onAction's test: a message from a block ahead of the last committed block.
wsAhead(e, m) == m.blk > e.lastCommittedBlockNum

\* Mutation of wsPushOne: nothing is pushed.
wsPushOneSkips(e, i) == e

\* Mutation of wsPushOne: pending actions are pushed last one first.
wsPushOneReversed(e, i) ==
    [e EXCEPT !.committedActions =
        Append(@, e.pendingActions[Len(e.pendingActions) + 1 - i])]

\* commit, the body of the forEach for the i-th pending action: it is
\* pushed to committedActions.
wsPushOne(e, i) ==
    [e EXCEPT !.committedActions = Append(@, e.pendingActions[i])]

RECURSIVE wsForEach(_, _)
\* The forEach over pendingActions from its i-th element on.
wsForEach(e, i) ==
    IF i > Len(e.pendingActions) THEN e ELSE wsForEach(wsPushOne(e, i), i + 1)

\* commit, first part as a whole: pending actions are pushed to
\* committedActions.
wsCommitSink(e) ==
    IF Len(e.pendingActions) > 0 THEN wsForEach(e, 1) ELSE e

\* Mutation of wsCommitBump: the pending list is not cleared.
wsCommitBumpKeepsPending(e, blockNum) ==
    [e EXCEPT !.lastCommittedBlockNum = blockNum]

\* commit, second part: pending is cleared and the last committed block bumped.
wsCommitBump(e, blockNum) ==
    [e EXCEPT !.pendingActions = <<>>, !.lastCommittedBlockNum = blockNum]

\* onAction, last statement: the action is pushed to pending.
wsPush(e, m) == [e EXCEPT !.pendingActions = @ \o m.acts]

wsCommit(e, blockNum) == wsCommitBump(wsCommitSink(e), blockNum)

wsOnAction(e, m) ==
    wsPush(IF wsAhead(e, m) THEN wsCommit(e, m.blk) ELSE e, m)

wsOnProgress(e, m) == wsCommit(e, m.blk)

\* Mutation of gqlMark: the marker is left where it was.
gqlMarkStale(old, cursor) == old

\* commit: this.ensureStream().mark({ cursor }) sets the stream's marker.
gqlMark(old, cursor) == cursor

\* Mutation of wsMark: the marker is left where it was.
wsMarkStale(old, blockNum) == old

\* Mutation of wsMark: the stream is marked one block ahead.
wsMarkAhead(old, blockNum) == blockNum + 1

\* commit: this.ensureStream().mark({ atBlockNum: blockNum }).
wsMark(old, blockNum) == blockNum

\* Mutation of flushPending: pending actions are committed, not dropped.
flushPendingCommits(e) ==
    [e EXCEPT !.committedActions = @ \o e.pendingActions,
              !.pendingActions = <<>>]

\* flushPending / the body of onPostRestart: pending actions are dropped.
flushPending(e) == [e EXCEPT !.pendingActions = <<>>]

\* ------------------------------------------------------------------ stream
\* The position a cursor denotes: the index of the message it came with
\* (0 for the empty cursor). The stream (re)starts for a cursor at that
\* message, inclusively; from the beginning for the empty cursor.
CursorPos(src, c) ==
    IF \E i \in 1..Len(src) : CursorOf(i) = c
    THEN CHOOSE i \in 1..Len(src) : CursorOf(i) = c
    ELSE 0

ResumeAtCursor(src, c) == IF CursorPos(src, c) = 0 THEN 1 ELSE CursorPos(src, c)

\* Where the stream restarts for a marked block: at the first message of that
\* block, inclusively (past the end when no message is at or after it).
ResumeAtBlock(src, b) ==
    IF \E i \in 1..Len(src) : src[i].blk >= b
    THEN CHOOSE i \in 1..Len(src) :
            src[i].blk >= b /\ \A j \in 1..(i - 1) : src[j].blk < b
    ELSE Len(src) + 1

\* Where a stream opened with no start block begins: at the first message
\* or at the tip.
StartPositions(tip) == {1, tip}

\* The message a payload came with.
MsgOf(a) == a \div 10

RECURSIVE RunStraight(_, _, _, _)
\* The engine's fields after the messages i.. of src were handled one after
\* the other on one connection, never interrupted.
RunStraight(v, src, e, i) ==
    IF i > Len(src) THEN e
    ELSE RunStraight(v, src,
                     IF v = "cursor" THEN gqlOnResult(e, src[i])
                     ELSE IF src[i].kind = "action" THEN wsOnAction(e, src[i])
                     ELSE wsOnProgress(e, src[i]),
                     i + 1)

\* ------------------------------------------------------------------- state
VARIABLES
    variant,      \* "cursor" (graphql-never-miss-a-beat.js) or "block" (never-miss-a-beat.ts)
    source,       \* the messages the API holds for the subscription, in order
    engine,       \* the Engine's fields
    marked,       \* the stream's marker: a cursor, or a block number (0: none)
    next,         \* index in source of the next message the connection delivers
    file,         \* last_cursor.txt
    pc,           \* position in the running handler; "idle" between messages
    msg,          \* index of the message being handled (0: none yet)
    reconnects,   \* socket reconnections so far
    crashes,      \* times the process ended (crash, or stop) so far
    op,           \* history: the step taken last
    snap,         \* history: engine, marked and file when the last handler or hook began
    delivered,    \* history: indices of the messages handed to this process's engine
    sinkLog,      \* history: every payload pushed to committedActions, over all runs
    lastWritten,  \* history: the cursor of the last completed writeFileSync
    crashedAt,    \* history: pc and message at the last crash
    faults,       \* failed writes and error messages so far
    connBase,     \* history: length of committedActions when the connection began
    term,         \* history: whether a terminal error was handled in this run, and the state then
    thrown,       \* history: the exception the last failed handler ended with ("none": no handler failed)
    stream,       \* whether this.stream is assigned (the subscribe call has resolved)
    closing,      \* whether stop() has been called and waits for close() to resolve
    pushed,       \* pending actions the forEach of the running commit has pushed so far
    endedBase     \* history: length of committedActions when the connection the last reconnect ended had begun

vars == <<variant, source, engine, marked, next, file, pc, msg, reconnects,
          crashes, op, snap, delivered, sinkLog, lastWritten, crashedAt,
          faults, connBase, term, thrown, stream, closing, pushed, endedBase>>

Snapshot == [engine |-> engine, marked |-> marked, file |-> file]

Init ==
    /\ variant \in {"cursor", "block"}
    /\ source \in (IF variant = "cursor" THEN GqlSources ELSE WsSources)
    /\ engine = NewEngine
    /\ marked = (IF variant = "cursor" THEN <<>> ELSE 0)
    /\ next = 1
    /\ file = NoFile
    /\ pc = "new"
    /\ msg = 0
    /\ reconnects = 0
    /\ crashes = 0
    /\ op = "init"
    /\ snap = Snapshot
    /\ delivered = {}
    /\ sinkLog = <<>>
    /\ lastWritten = [any |-> FALSE, cursor |-> <<>>]
    /\ crashedAt = [pc |-> "none", msg |-> 0]
    /\ faults = 0
    /\ connBase = 0
    /\ term = [seen |-> FALSE, at |-> Snapshot]
    /\ thrown = "none"
    /\ stream = FALSE
    /\ closing = FALSE
    /\ pushed = 0
    /\ endedBase = 0

\* The payloads a step pushed to committedActions.
Pushed(before, after) ==
    SubSeq(after.committedActions, Len(before.committedActions) + 1,
           Len(after.committedActions))

\* ----------------------------------------------- graphql-never-miss-a-beat.js
\* run() up to the await of client.graphql(...): the last persisted cursor
\* is loaded and the subscription is requested with it as variables.cursor
\* and with the message callback; this.stream is not assigned yet.
Run ==
    /\ variant = "cursor" /\ pc = "new"
    /\ marked' = LoadCursor(file)
    /\ next' = ResumeAtCursor(source, marked')
    /\ pc' = "await"
    /\ op' = "run"
    /\ snap' = [Snapshot EXCEPT !.marked = marked']
    /\ connBase' = Len(engine.committedActions)
    /\ UNCHANGED <<variant, source, engine, file, msg, reconnects, crashes,
                   delivered, sinkLog, lastWritten, crashedAt,
                   faults, term, thrown, stream, closing, pushed, endedBase>>

\* The subscribe call resolved: run() / start() goes on after its await,
\* this.stream is assigned and the onPostRestart hook registered.
StreamResolved ==
    /\ pc = "await"
    /\ stream' = TRUE
    /\ pc' = "idle"
    /\ op' = "resolved"
    /\ UNCHANGED <<variant, source, engine, marked, next, file, msg,
                   reconnects, crashes, snap, delivered, sinkLog, lastWritten,
                   crashedAt, faults, connBase, term, thrown, closing, pushed, endedBase>>

\* A "data" message reaches onResult: a live marker goes to onProgress and
\* straight to commit, a transaction has its matching actions pushed first.
GqlOnResult ==
    /\ variant = "cursor" /\ pc = "idle" /\ next <= Len(source)
    /\ msg' = next
    /\ next' = next + 1
    /\ snap' = Snapshot
    /\ engine' = IF source[next].kind = "progress" THEN engine
                 ELSE gqlPushMatching(engine, source[next])
    /\ delivered' = delivered \cup {next}
    /\ pc' = "sink"
    /\ op' = "deliver"
    /\ UNCHANGED <<variant, source, marked, file, reconnects, crashes,
                   sinkLog, lastWritten, crashedAt,
                   faults, connBase, term, thrown, stream, closing, pushed, endedBase>>

\* commit, one round of the forEach: the next pending action is pushed.
GqlCommitPush ==
    /\ variant = "cursor" /\ pc = "sink"
    /\ pushed < Len(engine.pendingActions)
    /\ engine' = gqlPushOne(engine, pushed + 1)
    /\ sinkLog' = sinkLog \o Pushed(engine, engine')
    /\ pushed' = pushed + 1
    /\ op' = "pushone"
    /\ UNCHANGED <<variant, source, marked, next, file, pc, msg, reconnects,
                   crashes, snap, delivered, lastWritten, crashedAt,
                   faults, connBase, term, thrown, stream, closing, endedBase>>

\* commit, the forEach is over (or nothing was pending): the pending list
\* is emptied.
GqlCommitSink ==
    /\ variant = "cursor" /\ pc = "sink"
    /\ pushed = Len(engine.pendingActions)
    /\ engine' = gqlCommitClear(engine)
    /\ pushed' = 0
    /\ pc' = "mark"
    /\ op' = "sink"
    /\ UNCHANGED <<variant, source, marked, next, file, msg, reconnects,
                   crashes, snap, delivered, sinkLog, lastWritten, crashedAt,
                   faults, connBase, term, thrown, stream, closing, endedBase>>

\* ensureStream() returns this.stream when it is assigned.
GqlCommitMark ==
    /\ variant = "cursor" /\ pc = "mark" /\ stream
    /\ marked' = gqlMark(marked, CursorOf(msg))
    /\ pc' = "persist"
    /\ op' = "mark"
    /\ UNCHANGED <<variant, source, engine, next, file, msg, reconnects,
                   crashes, snap, delivered, sinkLog, lastWritten, crashedAt,
                   faults, connBase, term, thrown, stream, closing, pushed, endedBase>>

\* writeFileSync, first part: the file is opened for writing, created or
\* emptied.
GqlCommitTruncate ==
    /\ variant = "cursor" /\ pc = "persist"
    /\ file' = openTruncate(file)
    /\ pc' = "write"
    /\ op' = "truncate"
    /\ UNCHANGED <<variant, source, engine, marked, next, msg, reconnects,
                   crashes, snap, delivered, sinkLog, lastWritten, crashedAt,
                   faults, connBase, term, thrown, stream, closing, pushed, endedBase>>

\* writeFileSync, the write loop: a write call stores some or all of the
\* bytes that are left.
GqlCommitWritePart ==
    /\ variant = "cursor" /\ pc = "write"
    /\ \E k \in 1..(Len(Utf8Encode(CursorOf(msg))) - Len(file.bytes)) :
          file' = writePart(file, CursorOf(msg), k)
    /\ op' = "writepart"
    /\ UNCHANGED <<variant, source, engine, marked, next, pc, msg, reconnects,
                   crashes, snap, delivered, sinkLog, lastWritten, crashedAt,
                   faults, connBase, term, thrown, stream, closing, pushed,
                   endedBase>>

\* writeFileSync, the end: all bytes are written, the file is closed and the
\* call returns.
GqlCommitPersist ==
    /\ variant = "cursor" /\ pc = "write"
    /\ file = writeFileSync(CursorOf(msg))
    /\ lastWritten' = [any |-> TRUE, cursor |-> CursorOf(msg)]
    /\ pc' = "idle"
    /\ op' = "persist"
    /\ UNCHANGED <<variant, source, engine, marked, next, file, msg,
                   reconnects, crashes, snap, delivered, sinkLog, crashedAt,
                   faults, connBase, term, thrown, stream, closing, pushed,
                   endedBase>>

\* The process dies (at any point of a handler or between two) and is
\* launched again: main() builds a new Engine; the file stays as the
\* process left it (when it died inside writeFileSync: empty, or holding
\* the first bytes of the cursor, or all of them) and the sink holds what
\* was pushed (when it died inside the forEach: the first pending actions).
Crash ==
    /\ variant = "cursor" /\ pc # "new" /\ crashes < MaxCrashes
    /\ crashedAt' = [pc |-> pc, msg |-> msg]
    /\ crashes' = crashes + 1
    /\ engine' = NewEngine
    /\ marked' = <<>>
    /\ next' = 1
    /\ msg' = 0
    /\ delivered' = {}
    /\ pc' = "new"
    /\ op' = "crash"
    /\ snap' = [engine |-> NewEngine, marked |-> <<>>, file |-> file]
    /\ connBase' = 0
    /\ term' = [seen |-> FALSE, at |-> snap']
    /\ stream' = FALSE
    /\ pushed' = 0
    /\ endedBase' = 0
    /\ UNCHANGED <<variant, source, file, reconnects, sinkLog, lastWritten,
                   faults, thrown, closing>>

\* ------------------------------------------------------ never-miss-a-beat.ts
\* start() up to the await of client.streamActionTraces(...): the stream is
\* requested with the dispatcher; this.stream is not assigned yet. The
\* request names no block to start from: the stream opens at the first
\* message or at the tip (the message the last process would have been
\* handed next).
Start ==
    /\ variant = "block" /\ pc = "new"
    /\ next' \in StartPositions(next)
    /\ pc' = "await"
    /\ op' = "start"
    /\ connBase' = Len(engine.committedActions)
    /\ UNCHANGED <<variant, source, engine, marked, file, msg,
                   reconnects, crashes, snap, delivered, sinkLog, lastWritten,
                   crashedAt, faults, term, thrown, stream, closing, pushed, endedBase>>

\* stop() up to the await of close(): ensureStream() returns the stream
\* and its close is requested. Until close() has resolved the callbacks of
\* the stream can still run.
Stop ==
    /\ variant = "block" /\ pc = "idle" /\ ~closing /\ crashes < MaxCrashes
    /\ closing' = TRUE
    /\ op' = "closing"
    /\ UNCHANGED <<variant, source, engine, marked, next, file, pc, msg,
                   reconnects, crashes, snap, delivered, sinkLog, lastWritten,
                   crashedAt, faults, connBase, term, thrown, stream, pushed, endedBase>>

\* stop() after the await: the committed actions are printed; main then
\* releases the client and the process ends. Nothing is committed and
\* nothing is kept: a later process builds a new Engine.
StopReturns ==
    /\ variant = "block" /\ pc = "idle" /\ closing
    /\ crashedAt' = [pc |-> "stop", msg |-> msg]
    /\ crashes' = crashes + 1
    /\ snap' = Snapshot
    /\ engine' = NewEngine
    /\ marked' = 0
    /\ msg' = 0
    /\ delivered' = {}
    /\ pc' = "new"
    /\ op' = "stop"
    /\ connBase' = 0
    /\ term' = [seen |-> FALSE, at |-> [engine |-> NewEngine, marked |-> 0, file |-> file]]
    /\ stream' = FALSE
    /\ closing' = FALSE
    /\ endedBase' = 0
    /\ UNCHANGED <<variant, source, next, file, reconnects, sinkLog,
                   lastWritten, faults, thrown, pushed>>

\* onProgress: commit(block_id, block_num).
WsOnProgress ==
    /\ variant = "block" /\ pc = "idle" /\ next <= Len(source)
    /\ source[next].kind = "progress"
    /\ msg' = next
    /\ next' = next + 1
    /\ snap' = Snapshot
    /\ delivered' = delivered \cup {next}
    /\ pc' = "sink"
    /\ op' = "deliver"
    /\ UNCHANGED <<variant, source, engine, marked, file, reconnects, crashes,
                   sinkLog, lastWritten, crashedAt,
                   faults, connBase, term, thrown, stream, closing, pushed, endedBase>>

\* onAction: commit first when the block is ahead of the last committed one;
\* the action is pushed to pending in any case.
WsOnAction ==
    /\ variant = "block" /\ pc = "idle" /\ next <= Len(source)
    /\ source[next].kind = "action"
    /\ msg' = next
    /\ next' = next + 1
    /\ snap' = Snapshot
    /\ delivered' = delivered \cup {next}
    /\ engine' = IF wsAhead(engine, source[next]) THEN engine
                 ELSE wsPush(engine, source[next])
    /\ pc' = IF wsAhead(engine, source[next]) THEN "sink" ELSE "idle"
    /\ op' = IF wsAhead(engine, source[next]) THEN "deliver" ELSE "push"
    /\ UNCHANGED <<variant, source, marked, file, reconnects, crashes,
                   sinkLog, lastWritten, crashedAt,
                   faults, connBase, term, thrown, stream, closing, pushed, endedBase>>

\* commit, one round of the forEach: the next pending action is pushed.
WsCommitPush ==
    /\ variant = "block" /\ pc = "sink"
    /\ pushed < Len(engine.pendingActions)
    /\ engine' = wsPushOne(engine, pushed + 1)
    /\ sinkLog' = sinkLog \o Pushed(engine, engine')
    /\ pushed' = pushed + 1
    /\ op' = "pushone"
    /\ UNCHANGED <<variant, source, marked, next, file, pc, msg, reconnects,
                   crashes, snap, delivered, lastWritten, crashedAt,
                   faults, connBase, term, thrown, stream, closing, endedBase>>

\* commit, the forEach is over (or nothing was pending).
WsCommitSink ==
    /\ variant = "block" /\ pc = "sink"
    /\ pushed = Len(engine.pendingActions)
    /\ pushed' = 0
    /\ pc' = "bump"
    /\ op' = "sink"
    /\ UNCHANGED <<variant, source, engine, marked, next, file, msg,
                   reconnects, crashes, snap, delivered, sinkLog, lastWritten,
                   crashedAt, faults, connBase, term, thrown, stream, closing,
                   endedBase>>

WsCommitBump ==
    /\ variant = "block" /\ pc = "bump"
    /\ engine' = wsCommitBump(engine, source[msg].blk)
    /\ pc' = "mark"
    /\ op' = "bump"
    /\ UNCHANGED <<variant, source, marked, next, file, msg, reconnects,
                   crashes, snap, delivered, sinkLog, lastWritten, crashedAt,
                   faults, connBase, term, thrown, stream, closing, pushed, endedBase>>

\* ensureStream() returns this.stream when it is assigned.
WsCommitMark ==
    /\ variant = "block" /\ pc = "mark" /\ stream
    /\ marked' = wsMark(marked, source[msg].blk)
    /\ pc' = IF source[msg].kind = "action" THEN "push" ELSE "idle"
    /\ op' = "mark"
    /\ UNCHANGED <<variant, source, engine, next, file, msg, reconnects,
                   crashes, snap, delivered, sinkLog, lastWritten, crashedAt,
                   faults, connBase, term, thrown, stream, closing, pushed, endedBase>>

WsPush ==
    /\ variant = "block" /\ pc = "push"
    /\ engine' = wsPush(engine, source[msg])
    /\ pc' = "idle"
    /\ op' = "push"
    /\ UNCHANGED <<variant, source, marked, next, file, msg, reconnects,
                   crashes, snap, delivered, sinkLog, lastWritten, crashedAt,
                   faults, connBase, term, thrown, stream, closing, pushed, endedBase>>

\* --------------------------------------------------------------- reconnect
\* The socket reconnected: onPostRestart runs, then the stream delivers again
\* from its marker, inclusively. Callbacks never run inside a handler.
PostRestart ==
    /\ pc = "idle" /\ reconnects < MaxReconnects
    /\ reconnects' = reconnects + 1
    /\ snap' = Snapshot
    /\ engine' = flushPending(engine)
    /\ next' = IF variant = "cursor" THEN ResumeAtCursor(source, marked)
               ELSE ResumeAtBlock(source, marked)
    /\ op' = "restart"
    /\ endedBase' = connBase
    /\ connBase' = Len(engine.committedActions)
    /\ UNCHANGED <<variant, source, marked, file, pc, msg, crashes, delivered,
                   sinkLog, lastWritten, crashedAt,
                   faults, term, thrown, stream, closing, pushed>>

\* The client hands a message to its callback once the subscribe call has
\* resolved (pc = "idle" implies stream).
Next ==
    \/ Run
    \/ StreamResolved
    \/ GqlOnResult
    \/ GqlCommitPush
    \/ GqlCommitSink
    \/ GqlCommitMark
    \/ GqlCommitTruncate
    \/ GqlCommitWritePart
    \/ GqlCommitPersist
    \/ Crash
    \/ Start
    \/ Stop
    \/ StopReturns
    \/ WsOnProgress
    \/ WsOnAction
    \/ WsCommitPush
    \/ WsCommitSink
    \/ WsCommitBump
    \/ WsCommitMark
    \/ WsPush
    \/ PostRestart

Spec == Init /\ [][Next]_vars

\* ------------------------------------------------------------- type sanity
Cursor == variant = "cursor"
Block == variant = "block"
\* The handler of message msg has run to its end.
HandlerDone == pc = "idle" /\ op \in {"persist", "mark", "push"}
\* Every message of the source has been delivered on the current connection.
Exhausted == pc = "idle" /\ next > Len(source)

\* The payloads of the source, in delivery order.
RECURSIVE SourceActionsFrom(_, _)
SourceActionsFrom(src, i) ==
    IF i > Len(src) THEN <<>> ELSE src[i].acts \o SourceActionsFrom(src, i + 1)

SourceActions == SourceActionsFrom(source, 1)

\* s is t[k+1 .. k+Len(s)].
IsSegmentAt(s, t, k) ==
    /\ k + Len(s) <= Len(t)
    /\ \A j \in 1..Len(s) : s[j] = t[k + j]

HasDuplicate(s) == Cardinality(Range(s)) < Len(s)

\* What the last handler had pending when its commit began.
PendingAtCommit ==
    IF Cursor /\ source[msg].kind = "data"
    THEN snap.engine.pendingActions \o source[msg].acts
    ELSE snap.engine.pendingActions

\* The cursor the file holds (empty: no file).
Persisted == LoadCursor(file)

\* ------------------------------------------------------------------ claims

\* C1 (no gap): once the connection has delivered the whole source, whatever
\* reconnects happened on the way, the set of payloads in committedActions
\* is the set the engine commits when it handles the same source on one
\* uninterrupted connection. (Within one process: committedActions is
\* memory of the process.)
C1_NoGap ==
    (Exhausted /\ crashes = 0) =>
        Range(engine.committedActions)
          = Range(RunStraight(variant, source, NewEngine, 1).committedActions)

\* C1 witness: the source was delivered to its end after a reconnect that
\* redelivered payloads already committed, in the block-height variant.
C1_Witness ==
    /\ Block /\ Exhausted /\ reconnects >= 1
    /\ HasDuplicate(engine.committedActions)
    /\ engine.pendingActions # <<>>

\* C2 (exactly once), as claimed: committedActions never holds the same
\* source action twice.
C2_ExactlyOnce == ~HasDuplicate(engine.committedActions)

\* C3 (no advance without commit, cursor variant), as claimed: at every
\* point every delivered message at or before the position of the marked
\* cursor or of the persisted cursor has all its matching actions in
\* committedActions.
C3_CursorCoversCommitted ==
    Cursor =>
        \A i \in delivered :
            (i <= CursorPos(source, marked) \/ i <= CursorPos(source, Persisted)) =>
                Range(source[i].acts) \subseteq Range(engine.committedActions)

\* The message in hand is the one at the cursor a process started after a
\* crash subscribed with, delivered again, and its commit has not pushed all
\* its actions yet.
RedeliveredInHand(i) == crashes > 0 /\ i = msg /\ pc = "sink"

\* C3 amended: at every point, inside commit and between two pushes too,
\* every message at or before the position of the marked cursor and of the
\* persisted cursor has all its matching actions in the sink of all
\* processes; and if it was delivered to the running process, in its
\* committedActions, except for the redelivered message in hand of a process
\* started after a crash.
C3_NoAdvanceWithoutCommit ==
    Cursor =>
        \A i \in 1..Len(source) :
            (i <= CursorPos(source, marked) \/ i <= CursorPos(source, Persisted)) =>
                /\ Range(source[i].acts) \subseteq Range(sinkLog)
                /\ (i \in delivered /\ ~RedeliveredInHand(i)) =>
                       Range(source[i].acts) \subseteq Range(engine.committedActions)

\* C3 witness: a process started after a crash has the message at the
\* persisted cursor in hand again, a transaction of two actions, between
\* the two pushes of its commit.
C3_Witness ==
    /\ Cursor /\ crashes > 0 /\ pc = "sink" /\ pushed = 1
    /\ Len(engine.pendingActions) = 2
    /\ msg = CursorPos(source, Persisted) /\ marked = Persisted

\* C4 (no advance without commit, block-height variant), as claimed: when
\* the stream has just been marked at block N, every action delivered at a
\* block at or before N is in committedActions.
C4_MarkCoversDelivered ==
    (Block /\ op = "mark") =>
        \A i \in delivered :
            (source[i].kind = "action" /\ source[i].blk <= marked) =>
                Range(source[i].acts) \subseteq Range(engine.committedActions)

\* C4 amended: at every point every action delivered at a block strictly
\* before the marked block is in committedActions, and right after a mark
\* lastCommittedBlockNum is the marked block; actions of the marked block
\* itself may still be pending.
C4_MarkCoversEarlierBlocks ==
    Block =>
        /\ \A i \in delivered :
              (source[i].kind = "action" /\ source[i].blk < marked) =>
                  Range(source[i].acts) \subseteq Range(engine.committedActions)
        /\ op = "mark" => engine.lastCommittedBlockNum = marked

\* C4 witness: onAction has committed and marked block 2 for the first
\* action of block 2, with an action of block 1 delivered before.
C4_Witness ==
    /\ Block /\ op = "mark" /\ marked = 2 /\ source[msg].kind = "action"
    /\ \E i \in delivered : source[i].kind = "action" /\ source[i].blk = 1

\* C5 (reconnect flush): right after the reconnect hook pendingActions is
\* empty and committedActions, lastCommittedBlockNum, the marker and the
\* cursor file are what they were when the hook began.
C5_ReconnectFlush ==
    op = "restart" =>
        /\ engine.pendingActions = <<>>
        /\ engine.committedActions = snap.engine.committedActions
        /\ engine.lastCommittedBlockNum = snap.engine.lastCommittedBlockNum
        /\ marked = snap.marked
        /\ file = snap.file

\* C5 witness: the hook fired with two actions pending.
C5_Witness == op = "restart" /\ Len(snap.engine.pendingActions) = 2

\* C6 (progress-only commit): when the handler of a progress message has
\* ended, the stream is marked at the message's position and that position
\* is the one kept (the cursor file in the cursor variant,
\* lastCommittedBlockNum in the block-height variant); with nothing pending
\* when it began, committedActions is unchanged.
C6_ProgressCommits ==
    (HandlerDone /\ source[msg].kind = "progress") =>
        /\ Cursor => (marked = CursorOf(msg) /\ file.exists
                        /\ Persisted = CursorOf(msg))
        /\ Block => (marked = source[msg].blk
                        /\ engine.lastCommittedBlockNum = source[msg].blk)
        /\ snap.engine.pendingActions = <<>> =>
              engine.committedActions = snap.engine.committedActions

\* C6 witness: a live marker handled with nothing pending, after a
\* transaction was persisted under another cursor.
C6_Witness ==
    /\ Cursor /\ HandlerDone /\ source[msg].kind = "progress" /\ msg >= 2
    /\ snap.engine.pendingActions = <<>>
    /\ snap.file.exists /\ engine.committedActions # <<>>

\* C7 (arrival order): a commit appends the whole pending list, in order, to
\* committedActions; and committedActions without its repetitions lists the
\* payloads of the source in delivery order, from the first payload on, in
\* the first run of the process (in a later run of the cursor variant, from
\* the payload the run resumed at).
C7_ArrivalOrder ==
    /\ op = "sink" =>
          engine.committedActions = snap.engine.committedActions \o PendingAtCommit
    /\ (Cursor \/ crashes = 0) =>
          \E k \in 0..Len(SourceActions) :
              /\ IsSegmentAt(Dedup(engine.committedActions), SourceActions, k)
              /\ crashes = 0 => k = 0

\* C7 witness: a commit of two pending actions, after a reconnect made
\* committedActions hold a payload twice.
C7_Witness ==
    /\ op = "sink" /\ Len(PendingAtCommit) = 2
    /\ HasDuplicate(engine.committedActions)

\* C8 (commit on every event, cursor variant): when onResult has handled a
\* transaction with cursor c, pendingActions is empty, the transaction's
\* matching actions are the last elements of committedActions in their
\* order, and the marker and the cursor file both hold c.
C8_CommitOnEveryEvent ==
    (Cursor /\ HandlerDone /\ source[msg].kind = "data") =>
        /\ engine.pendingActions = <<>>
        /\ Len(engine.committedActions) >= Len(source[msg].acts)
        /\ SubSeq(engine.committedActions,
                  Len(engine.committedActions) - Len(source[msg].acts) + 1,
                  Len(engine.committedActions)) = source[msg].acts
        /\ marked = CursorOf(msg)
        /\ file.exists /\ Persisted = CursorOf(msg)

\* C8 witness: no stored position at the start, then T1 and T2, one action
\* each: the sink is [T1, T2] and the file holds the second cursor.
C8_Witness ==
    /\ Cursor /\ HandlerDone /\ msg = 2 /\ crashes = 0
    /\ engine.committedActions = <<ActionId(1, 1), ActionId(2, 1)>>
    /\ Persisted = CursorOf(2)

\* C9 (resume from the persisted position), as claimed: a run subscribes
\* with the cursor the last completed writeFileSync of an earlier run was
\* given, or with the empty cursor when none completed.
C9_ResumeFromPersisted ==
    op = "run" =>
        marked = (IF lastWritten.any THEN lastWritten.cursor ELSE <<>>)

\* C10 (crash inside commit), as claimed: at the start of a run that follows
\* a crash, no message before the one the stream resumes at (which it
\* delivers again, with all that follow) lacks an action in the sink; and
\* after a crash that fell between the sink write and the completion of the
\* file write the run resumes from the cursor persisted before, at or before
\* the message whose actions were sunk.
C10_CrashInsideCommit ==
    (Cursor /\ op = "run" /\ crashes > 0) =>
        /\ \A i \in 1..Len(source) :
              i < next => Range(source[i].acts) \subseteq Range(sinkLog)
        /\ crashedAt.pc \in {"mark", "persist", "write"} =>
              /\ marked = (IF lastWritten.any THEN lastWritten.cursor ELSE <<>>)
              /\ next <= crashedAt.msg

\* C15 (shutdown discards safely), as claimed: the stream of the start that
\* follows a stop begins at or before the message of every payload that was
\* pending, and so discarded, at the stop.
C15_DiscardedRedelivered ==
    (Block /\ op = "start" /\ crashedAt.pc = "stop") =>
        \A a \in Range(snap.engine.pendingActions) : next <= MsgOf(a)

\* The payloads the connection that the last reconnect ended had pushed to
\* committedActions, from its beginning to the reconnect hook.
CommittedThisConnection ==
    Range(SubSeq(snap.engine.committedActions, endedBase + 1,
                 Len(snap.engine.committedActions)))

\* C16 (mark after commit): when mark is about to be called, pendingActions
\* is empty and what was pending when the commit began ends
\* committedActions; and no payload pending when the reconnect hook fires
\* was committed by the connection that ended.
C16_MarkAfterCommit ==
    /\ pc = "mark" =>
          /\ engine.pendingActions = <<>>
          /\ Len(engine.committedActions) >= Len(PendingAtCommit)
          /\ SubSeq(engine.committedActions,
                    Len(engine.committedActions) - Len(PendingAtCommit) + 1,
                    Len(engine.committedActions)) = PendingAtCommit
    /\ op = "restart" =>
          Range(snap.engine.pendingActions) \cap CommittedThisConnection = {}

\* C16 witness: the hook fires on a connection that had committed a payload
\* and holds another one pending, after an earlier reconnect.
C16_Witness ==
    /\ op = "restart" /\ reconnects = 2
    /\ CommittedThisConnection # {}
    /\ snap.engine.pendingActions # <<>>

\* C17 (batched commit trigger): when onAction has handled an action,
\* either its block was ahead of lastCommittedBlockNum, what was pending
\* was committed and marked at that block and the action alone is pending;
\* or it was not and the action was appended to pending with
\* committedActions, the marker and lastCommittedBlockNum unchanged.
C17_BatchedCommitTrigger ==
    (Block /\ HandlerDone /\ source[msg].kind = "action") =>
        IF source[msg].blk > snap.engine.lastCommittedBlockNum
        THEN /\ engine.committedActions
                  = snap.engine.committedActions \o snap.engine.pendingActions
             /\ engine.pendingActions = source[msg].acts
             /\ marked = source[msg].blk
             /\ engine.lastCommittedBlockNum = source[msg].blk
        ELSE /\ engine.committedActions = snap.engine.committedActions
             /\ engine.pendingActions
                  = snap.engine.pendingActions \o source[msg].acts
             /\ marked = snap.marked
             /\ engine.lastCommittedBlockNum = snap.engine.lastCommittedBlockNum

\* C17 witness: a second action of the last committed block was handled
\* without a commit: two actions are pending and nothing is committed.
C17_Witness ==
    /\ Block /\ HandlerDone /\ source[msg].kind = "action"
    /\ source[msg].blk <= snap.engine.lastCommittedBlockNum
    /\ Len(engine.pendingActions) = 2 /\ engine.committedActions = <<>>

\* C19 (pending is covered by the mark): between handlers
\* lastCommittedBlockNum is the marked block and every pending action is of
\* that block; and the stream restarts at or before the message of every
\* action the reconnect hook dropped.
C19_PendingCoveredByMark ==
    /\ (Block /\ pc = "idle") =>
          /\ engine.lastCommittedBlockNum = marked
          /\ \A a \in Range(engine.pendingActions) :
                source[MsgOf(a)].blk = engine.lastCommittedBlockNum
    /\ (Block /\ op = "restart") =>
          \A a \in Range(snap.engine.pendingActions) : next <= MsgOf(a)

\* C19 witness: the hook dropped an action of block 2, the marked block,
\* and the stream restarts past the first message.
C19_Witness ==
    /\ Block /\ op = "restart" /\ marked = 2 /\ next >= 2
    /\ snap.engine.pendingActions # <<>>

\* C20 (monotonic progress): while the process runs, no step lowers
\* lastCommittedBlockNum or the marked block.
C20_MonotonicProgress ==
    [][(Block /\ op' # "stop") =>
          /\ engine'.lastCommittedBlockNum >= engine.lastCommittedBlockNum
          /\ marked' >= marked]_vars

\* C20 witness: the marker moved from block 1 to block 2 after a reconnect
\* redelivered block 1.
C20_Witness ==
    /\ Block /\ op = "mark" /\ marked = 2 /\ snap.marked = 1
    /\ reconnects >= 1 /\ crashes = 0

\* ------------------------------------------- a running block-height engine
\* The engine of never-miss-a-beat.ts while its process runs: messages are
\* handled as long as the connection has some to deliver, each handler runs
\* to its end, and the socket reconnects at most MaxReconnects times.
WsStep ==
    \/ Start
    \/ StreamResolved
    \/ WsOnProgress
    \/ WsOnAction
    \/ WsCommitPush
    \/ WsCommitSink
    \/ WsCommitBump
    \/ WsCommitMark
    \/ WsPush

InitLive == Init /\ variant = "block"

NextLive == WsStep \/ PostRestart

SpecLive == InitLive /\ [][NextLive]_vars /\ WF_vars(WsStep)

\* The stream ends with a progress message: one follows every action.
ProgressKeepsComing == source[Len(source)].kind = "progress"

\* C18 (bounded staleness): when a progress message follows every action
\* and the socket reconnects finitely often, every action that is pending
\* is committed later on, with no further action needed.
C18_BoundedStaleness ==
    \A i \in 1..NumMsgs :
        (ProgressKeepsComing /\ ActionId(i, 1) \in Range(engine.pendingActions))
            ~> (ActionId(i, 1) \in Range(engine.committedActions))

\* C18 witness: an action that the reconnect hook dropped from pending is
\* committed by the last progress message, no action having followed it.
C18_Witness ==
    /\ ProgressKeepsComing /\ Exhausted /\ op = "mark" /\ reconnects >= 1
    /\ source[1].kind = "action" /\ source[2].kind = "progress"
    /\ connBase = 0
    /\ engine.committedActions = <<ActionId(1, 1)>>

\* ------------------------------------------------- failures and errors
\* Mutation of gqlSinkThrows: the pending list is emptied on the way out.
gqlSinkThrowsCleared(e) == [e EXCEPT !.pendingActions = <<>>]

\* commit of graphql-never-miss-a-beat.js when the push of a pending action
\* throws: the forEach is left and with it commit; the actions pushed before
\* stay in committedActions and the statement emptying the pending list is
\* not reached.
gqlSinkThrows(e) == e

\* commit of never-miss-a-beat.ts when the push of a pending action throws.
wsSinkThrows(e) == e

\* onError: what the call ends with. Its first statement evaluates the
\* identifier nil, which nothing declares: a ReferenceError is thrown before
\* anything is logged, whatever terminal is.
onError(terminal) == "ReferenceError"

GqlSinkFails ==
    /\ variant = "cursor" /\ pc = "sink" /\ faults < MaxFaults
    /\ pushed < Len(engine.pendingActions)
    /\ engine' = gqlSinkThrows(engine)
    /\ pushed' = 0
    /\ faults' = faults + 1
    /\ thrown' = "Error"
    /\ pc' = (IF stream THEN "idle" ELSE "await")
    /\ op' = "sinkfail"
    /\ UNCHANGED <<variant, source, marked, next, file, msg, reconnects,
                   crashes, snap, delivered, sinkLog, lastWritten, crashedAt,
                   connBase, term, stream, closing, endedBase>>

\* The exception leaves commit and onAction: the push of the action that
\* triggered the commit is not reached either.
WsSinkFails ==
    /\ variant = "block" /\ pc = "sink" /\ faults < MaxFaults
    /\ pushed < Len(engine.pendingActions)
    /\ engine' = wsSinkThrows(engine)
    /\ pushed' = 0
    /\ faults' = faults + 1
    /\ thrown' = "Error"
    /\ pc' = (IF stream THEN "idle" ELSE "await")
    /\ op' = "sinkfail"
    /\ UNCHANGED <<variant, source, marked, next, file, msg, reconnects,
                   crashes, snap, delivered, sinkLog, lastWritten, crashedAt,
                   connBase, term, stream, closing, endedBase>>

\* writeFileSync throws and commit and onResult are left: when the file
\* could not be opened it is as it was (pc = "persist"), when a write
\* failed it stays as the open and the writes before left it: empty, or
\* holding the first bytes of the cursor; when the close failed it holds
\* the whole cursor (pc = "write").
GqlPersistFails ==
    /\ variant = "cursor" /\ pc \in {"persist", "write"} /\ faults < MaxFaults
    /\ faults' = faults + 1
    /\ thrown' = "Error"
    /\ pc' = (IF stream THEN "idle" ELSE "await")
    /\ op' = "persistfail"
    /\ UNCHANGED <<variant, source, engine, marked, next, file, msg,
                   reconnects, crashes, snap, delivered, sinkLog, lastWritten,
                   crashedAt, connBase, term, stream, closing, pushed, endedBase>>

\* An "error" message reaches the callback between two messages of the
\* source, or before the subscribe call has resolved:
\* onError(message.errors, message.terminal). The engine keeps no record of
\* it; the callback stays registered.
OnError ==
    /\ variant = "cursor" /\ pc \in {"idle", "await"} /\ faults < MaxFaults
    /\ \E terminal \in BOOLEAN :
          /\ thrown' = (IF onError(terminal) = "returns" THEN "none"
                        ELSE onError(terminal))
          /\ op' = (IF terminal THEN "terminal" ELSE "error")
          /\ term' = (IF terminal THEN [seen |-> TRUE, at |-> Snapshot] ELSE term)
    /\ snap' = Snapshot
    /\ faults' = faults + 1
    /\ UNCHANGED <<variant, source, engine, marked, next, file, pc, msg,
                   reconnects, crashes, delivered, sinkLog, lastWritten,
                   crashedAt, connBase, stream, closing, pushed, endedBase>>

\* The client hands a message to its callback before the subscribe call has
\* resolved: the handler runs as ever, with this.stream not assigned.
EarlyMessage ==
    /\ pc = "await" /\ faults < MaxFaults /\ next <= Len(source)
    /\ msg' = next
    /\ next' = next + 1
    /\ snap' = Snapshot
    /\ delivered' = delivered \cup {next}
    /\ faults' = faults + 1
    /\ engine' = IF variant = "cursor"
                 THEN (IF source[next].kind = "progress" THEN engine
                       ELSE gqlPushMatching(engine, source[next]))
                 ELSE (IF source[next].kind = "action" /\ ~wsAhead(engine, source[next])
                       THEN wsPush(engine, source[next])
                       ELSE engine)
    /\ pc' = IF variant = "block" /\ source[next].kind = "action"
                  /\ ~wsAhead(engine, source[next])
             THEN "await" ELSE "sink"
    /\ op' = IF pc' = "sink" THEN "deliver" ELSE "push"
    /\ UNCHANGED <<variant, source, marked, file, reconnects, crashes,
                   sinkLog, lastWritten, crashedAt, connBase, term, thrown,
                   stream, closing, pushed, endedBase>>

\* ensureStream() with this.stream not assigned: it throws, out of commit
\* and of the handler. What commit did before stays: the pushes to
\* committedActions, the emptied pending list and, in the block-height
\* variant, lastCommittedBlockNum; the stream is not marked, the file not
\* written, onAction's push of the action not reached.
EnsureStreamThrows ==
    /\ pc = "mark" /\ ~stream
    /\ thrown' = "Error"
    /\ pc' = "await"
    /\ op' = "nostream"
    /\ UNCHANGED <<variant, source, engine, marked, next, file, msg,
                   reconnects, crashes, snap, delivered, sinkLog, lastWritten,
                   crashedAt, faults, connBase, term, stream, closing, pushed, endedBase>>

NextFaults ==
    \/ Next
    \/ EarlyMessage
    \/ EnsureStreamThrows
    \/ GqlSinkFails
    \/ WsSinkFails
    \/ GqlPersistFails
    \/ OnError

SpecFaults == Init /\ [][NextFaults]_vars

\* C11 (cursor persist failure), as claimed: when writeFileSync failed
\* during commit the stream has not been marked by that commit, and between
\* handlers the marked cursor is the persisted one.
C11_MarkedIsPersisted ==
    /\ (Cursor /\ op = "persistfail") => marked = snap.marked
    /\ (Cursor /\ pc = "idle") => marked = Persisted

\* C12 (sink write failure): when a push to the sink threw during commit,
\* the marker, the cursor file and lastCommittedBlockNum are what they were
\* when the handler began and pendingActions holds all that was pending
\* when the commit began.
C12_SinkFailureBlocksCommit ==
    op = "sinkfail" =>
        /\ marked = snap.marked
        /\ file = snap.file
        /\ engine.lastCommittedBlockNum = snap.engine.lastCommittedBlockNum
        /\ engine.pendingActions = PendingAtCommit

\* C12 witness: the second of two pushes threw: one payload reached
\* committedActions and both are still pending.
C12_Witness ==
    /\ op = "sinkfail" /\ Len(PendingAtCommit) = 2
    /\ Len(engine.committedActions) = Len(snap.engine.committedActions) + 1

\* C13 (terminal error is fatal), as claimed: once a terminal error message
\* was handled, committedActions, the marker and the cursor file stay what
\* they were then until the process is started again.
C13_TerminalStops ==
    (Cursor /\ term.seen) =>
        /\ engine.committedActions = term.at.engine.committedActions
        /\ marked = term.at.marked
        /\ file = term.at.file

\* C14 (non-terminal error is absorbed), as claimed: onError returns for a
\* non-terminal error message, with pendingActions, committedActions, the
\* marker and the cursor file unchanged.
C14_ErrorAbsorbed ==
    op = "error" =>
        /\ thrown = "none"
        /\ engine = snap.engine
        /\ marked = snap.marked
        /\ file = snap.file

====
